---- MODULE Spec2Model ----
(***************************************************************************)
(* Model of detectors/detector.py: the Detector base class.                *)
(*                                                                         *)
(* What the class itself does (control flow, dictionary updates, slicing,  *)
(* padding, the order of calls and the data flow between them) is modelled *)
(* concretely.  Calls into TensorFlow or into other modules (tf.cast,      *)
(* multiplication of tensors, sigmoid, softmax, delta2box, the NMS layer,  *)
(* build_backbone, build_neck, head.build_head) are uninterpreted: their   *)
(* result is a term that records the function and its arguments.           *)
(*                                                                         *)
(* Python strings are sequences of one-character strings, so that the      *)
(* substring tests of the code are computed and not assumed.               *)
(***************************************************************************)
EXTENDS Integers, Sequences, FiniteSets, TLC

VARIABLES cfg, head, model, nms, pc, calls, ret

vars == <<cfg, head, model, nms, pc, calls, ret>>

(***************************************************************************)
(* Bounds of the model.                                                    *)
(***************************************************************************)
MaxVars == 3
MaxBatch == 2
MaxChannels == 2

(***************************************************************************)
(* Python values.                                                          *)
(***************************************************************************)
None == [none |-> TRUE, str |-> <<>>]

Str(s) == [none |-> FALSE, str |-> s]

\* Python's  sub in s  for two strings
Contains(sub, s) ==
    \E i \in 0..(Len(s) - Len(sub)) : SubSeq(s, i + 1, i + Len(sub)) = sub

dot_h5 == <<".", "h", "5">>

kernel == <<"k", "e", "r", "n", "e", "l">>

\* "w.h5", "a.h5.b", "ckpt", "wh5", ""
Paths ==
    { <<"w", ".", "h", "5">>,
      <<"a", ".", "h", "5", ".", "b">>,
      <<"c", "k", "p", "t">>,
      <<"w", "h", "5">>,
      <<>> }

PathValues == {Str(p) : p \in Paths} \cup {None}

TrainPathValues == {Str(<<"w", ".", "h", "5">>), Str(<<>>)}

NoNeck == [none |-> TRUE, neck |-> "None"]

Necks == {NoNeck, [none |-> FALSE, neck |-> "fpn"]}

Postprocess ==
    [iou_threshold |-> 5, score_threshold |-> 1, pre_nms_size |-> 5000, post_nms_size |-> 100]

Configs ==
    { [detector |-> "detector",
       pretrained_weights_path |-> p,
       train |-> [pretrained_weights_path |-> tp, dataset |-> [input_size |-> <<512, 512>>]],
       backbone |-> [backbone |-> "resnet"],
       neck |-> n,
       head |-> [num_classes |-> hnc],
       num_classes |-> nc,
       use_sigmoid |-> sg,
       weight_decay |-> wd,
       postprocess |-> Postprocess] :
      p \in PathValues, tp \in TrainPathValues, n \in Necks,
      hnc \in {80, 81}, nc \in {80, 81}, sg \in BOOLEAN, wd \in {0, 3} }

(***************************************************************************)
(* Model variables (tf.Variable): name, trainable flag, flat value.        *)
(***************************************************************************)
Var(n, t, v) == [name |-> n, trainable |-> t, value |-> v]

\* "conv/kernel:0", "conv/bias:0", "dw_kernel:0", "stem/kernel:0" (frozen), "Kernel:0"
VariablePool ==
    { Var(<<"c", "o", "n", "v", "/", "k", "e", "r", "n", "e", "l", ":", "0">>, TRUE, <<1, 2>>),
      Var(<<"c", "o", "n", "v", "/", "b", "i", "a", "s", ":", "0">>, TRUE, <<3>>),
      Var(<<"d", "w", "_", "k", "e", "r", "n", "e", "l", ":", "0">>, TRUE, <<-1>>),
      Var(<<"s", "t", "e", "m", "/", "k", "e", "r", "n", "e", "l", ":", "0">>, FALSE, <<2, 2>>),
      Var(<<"K", "e", "r", "n", "e", "l", ":", "0">>, TRUE, <<2>>) }

\* the variable lists a built model may have: distinct variables of the pool
VariableLists ==
    UNION { { vs \in [1..n -> VariablePool] : \A i, j \in 1..n : i # j => vs[i] # vs[j] } :
            n \in 0..MaxVars }

(***************************************************************************)
(* Calls made to other modules, in the order in which they are made.       *)
(* tensor: the tensor argument (a chain: the input followed by the stages  *)
(* applied to it); path: the path argument.                                *)
(***************************************************************************)
NoTensor == <<>>

Call(fn, tensor, path) == [fn |-> fn, tensor |-> tensor, path |-> path]

\* the output tensor of stage  fn  applied to tensor  t
Out(t, fn) == Append(t, fn)

NoModel == [built |-> FALSE, name |-> "", inputs |-> NoTensor, outputs |-> NoTensor, variables |-> <<>>]

NoNms == [built |-> FALSE]

NoRet == [op |-> "none"]

(***************************************************************************)
(* Detector.build_model: the calls it makes and the model it returns.      *)
(* vs: the variables the builders create.                                  *)
(***************************************************************************)
build_model_no_neck(self_cfg, vs) ==
    LET inputs == <<"inputs">>
        c1 == <<Call("build_backbone", inputs, self_cfg.train.pretrained_weights_path)>>
        o1 == Out(inputs, "build_backbone")
        c3 == Append(c1, Call("build_head", o1, None))
        o3 == Out(o1, "build_head")
    IN  [calls |-> c3,
         model |-> [built |-> TRUE, name |-> self_cfg.detector, inputs |-> inputs,
                    outputs |-> o3, variables |-> vs]]

build_model(self_cfg, vs) ==
    LET inputs == <<"inputs">>
        c1 == <<Call("build_backbone", inputs, self_cfg.train.pretrained_weights_path)>>
        o1 == Out(inputs, "build_backbone")
        c2 == IF ~self_cfg.neck.none
              THEN c1 \o <<Call("build_neck", o1, None), Call("neck.build_model", o1, None)>>
              ELSE c1
        o2 == IF ~self_cfg.neck.none THEN Out(o1, "build_neck") ELSE o1
        c3 == Append(c2, Call("build_head", o2, None))
        o3 == Out(o2, "build_head")
    IN  [calls |-> c3,
         model |-> [built |-> TRUE, name |-> self_cfg.detector, inputs |-> inputs,
                    outputs |-> o3, variables |-> vs]]

\* the num_classes property
num_classes(self_cfg) == self_cfg.head.num_classes

CombinedNonMaxSuppression(iou_threshold, score_threshold, pre_nms_size, post_nms_size, nc) ==
    [built |-> TRUE, iou_threshold |-> iou_threshold, score_threshold |-> score_threshold,
     pre_nms_size |-> pre_nms_size, post_nms_size |-> post_nms_size, num_classes |-> nc]

(***************************************************************************)
(* Detector.__init__: the state of the object and the calls made when the  *)
(* constructor ends, normally or by an exception.   ".h5" in None  raises  *)
(* TypeError, after build_model and model.summary have run.                *)
(***************************************************************************)
__init__(c, h, vs) ==
    LET bm == build_model(c, vs)
        c1 == Append(bm.calls, Call("model.summary", NoTensor, None))
        p  == c.pretrained_weights_path
        theNms == CombinedNonMaxSuppression(c.postprocess.iou_threshold,
                                            c.postprocess.score_threshold,
                                            c.postprocess.pre_nms_size,
                                            c.postprocess.post_nms_size,
                                            c.num_classes)
    IN  IF p.none
        THEN [cfg |-> c, head |-> h, model |-> bm.model, nms |-> NoNms, calls |-> c1,
              pc |-> "raised", ret |-> [op |-> "__init__", status |-> "TypeError"]]
        ELSE IF Contains(dot_h5, p.str)
        THEN [cfg |-> c, head |-> h, model |-> bm.model, nms |-> theNms,
              calls |-> c1 \o <<Call("model.load_weights", NoTensor, p),
                                Call("tf.print", NoTensor, p),
                                Call("CombinedNonMaxSuppression", NoTensor, None)>>,
              pc |-> "ready", ret |-> [op |-> "__init__", status |-> "ok"]]
        ELSE [cfg |-> c, head |-> h, model |-> bm.model, nms |-> theNms,
              calls |-> c1 \o <<Call("init_weights", NoTensor, p),
                                Call("tf.print", NoTensor, p),
                                Call("CombinedNonMaxSuppression", NoTensor, None)>>,
              pc |-> "ready", ret |-> [op |-> "__init__", status |-> "ok"]]

Heads == {"head"}

\* the constructor is called with configuration cfg and head head
Construct ==
    /\ pc = "new"
    /\ \E vs \in VariableLists :
         LET s == __init__(cfg, head, vs)
         IN  /\ cfg' = s.cfg
             /\ head' = s.head
             /\ model' = s.model
             /\ nms' = s.nms
             /\ calls' = s.calls
             /\ pc' = s.pc
             /\ ret' = s.ret

\* the num_classes property is read
NumClasses ==
    /\ pc = "ready"
    /\ ret' = [op |-> "num_classes", status |-> "ok", value |-> num_classes(cfg)]
    /\ UNCHANGED <<cfg, head, model, nms, pc, calls>>

InitCtor ==
    /\ cfg \in Configs
    /\ head \in Heads
    /\ model = NoModel
    /\ nms = NoNms
    /\ pc = "new"
    /\ calls = <<>>
    /\ ret = NoRet

NextCtor == Construct \/ NumClasses

SpecCtor == InitCtor /\ [][NextCtor]_vars

(***************************************************************************)
(* Detector.losses.                                                        *)
(*                                                                         *)
(* A dictionary is a function from its keys.  Loss values are carried in   *)
(* units of 1/2, so that tf.nn.l2_loss(t) = sum(t * t) / 2 is the integer  *)
(* sum(t * t) of half units; the head's values and the totals are in the   *)
(* same unit.                                                              *)
(***************************************************************************)
RECURSIVE add_n(_)
\* tf.add_n of a non-empty list
add_n(list) == IF Len(list) = 0 THEN 0 ELSE Head(list) + add_n(Tail(list))

RECURSIVE items(_)
\* the values of d.items(), as a list
items(d) ==
    IF DOMAIN d = {} THEN <<>>
    ELSE LET k == CHOOSE x \in DOMAIN d : TRUE
         IN  <<d[k]>> \o items([x \in DOMAIN d \ {k} |-> d[x]])

\* d[key] = value
setitem(d, key, value) ==
    [k \in DOMAIN d \cup {key} |-> IF k = key THEN value ELSE d[k]]

\* tf.nn.l2_loss(variable), in half units
l2_loss(variable) == add_n([i \in 1..Len(variable.value) |-> variable.value[i] * variable.value[i]])

trainable_variables(m) == SelectSeq(m.variables, LAMBDA v : v.trainable)

\* the list  [tf.nn.l2_loss(variable) for variable in ... if "kernel" in variable.name]
l2_terms_all_trainable(self_model) ==
    LET sel == trainable_variables(self_model)
    IN  [i \in 1..Len(sel) |-> l2_loss(sel[i])]

l2_terms(self_model) ==
    LET sel == SelectSeq(trainable_variables(self_model), LAMBDA v : Contains(kernel, v.name))
    IN  [i \in 1..Len(sel) |-> l2_loss(sel[i])]

\* tf.add_n raises ValueError on an empty list
losses(self_cfg, self_model, head_result) ==
    LET terms == l2_terms(self_model)
        l2 == self_cfg.weight_decay * add_n(terms)
        r1 == setitem(head_result, "l2_loss", l2)
        r2 == setitem(r1, "loss", add_n(items(r1)))
    IN  IF Len(terms) = 0
        THEN [op |-> "losses", status |-> "ValueError", head_result |-> head_result,
              value |-> head_result]
        ELSE [op |-> "losses", status |-> "ok", head_result |-> head_result, value |-> r2]

HeadKeys == {"cls_loss", "box_loss", "loss", "l2_loss"}

\* what head.compute_losses may return
HeadResults == UNION { [K -> {1, 2}] : K \in SUBSET HeadKeys }

Losses ==
    /\ pc = "ready"
    /\ \E hr \in HeadResults : ret' = losses(cfg, model, hr)
    /\ pc' = "returned"
    /\ UNCHANGED <<cfg, head, model, nms, calls>>

\* the caller takes the returned value (or the exception of the call)
Return ==
    /\ pc = "returned"
    /\ pc' = "ready"
    /\ ret' = NoRet
    /\ UNCHANGED <<cfg, head, model, nms, calls>>

\* a constructed detector
Constructed(c, h, vs) ==
    LET s == __init__(c, h, vs)
    IN  /\ s.pc = "ready"
        /\ cfg = s.cfg
        /\ head = s.head
        /\ model = s.model
        /\ nms = s.nms
        /\ calls = s.calls
        /\ pc = "ready"
        /\ ret = NoRet

LossConfigs ==
    { c \in Configs :
        /\ c.pretrained_weights_path = Str(<<"w", ".", "h", "5">>)
        /\ c.train.pretrained_weights_path = Str(<<"w", ".", "h", "5">>)
        /\ ~c.neck.none
        /\ c.num_classes = 80
        /\ c.head.num_classes = 80
        /\ c.use_sigmoid }

InitLosses == \E c \in LossConfigs, h \in Heads, vs \in VariableLists : Constructed(c, h, vs)

NextLosses == Losses \/ Return

SpecLosses == InitLosses /\ [][NextLosses]_vars

(***************************************************************************)
(* Detector._get_matched_gt_boxes.                                         *)
(*                                                                         *)
(* A tensor of boxes is a sequence (batch) of sequences (rows) of boxes, a *)
(* box is 4 coordinates.  The TensorArray is the sequence of its writes.   *)
(***************************************************************************)
max_size == 800

\* tf.zeros([m, 4])
zeros(m) == [k \in 1..m |-> <<0, 0, 0, 0>>]

\* line 75: tf.boolean_mask(target_boxes[i], mask[i]) without the mask
valid_boxes_unmasked(boxes, mask) == boxes

\* line 75: tf.boolean_mask(target_boxes[i], mask[i])
valid_boxes(boxes, mask) ==
    LET zipped == [j \in 1..Len(boxes) |-> [box |-> boxes[j], keep |-> mask[j]]]
        kept == SelectSeq(zipped, LAMBDA z : z.keep)
    IN  [j \in 1..Len(kept) |-> kept[j].box]

\* lines 76-80 with the padding not reduced by size
matched_boxes_pad_max(valid) ==
    LET size == Len(valid)
    IN  IF size >= max_size
        THEN SubSeq(valid, 1, max_size)
        ELSE valid \o zeros(max_size)

\* lines 76-80
matched_boxes(valid) ==
    LET size == Len(valid)
    IN  IF size >= max_size
        THEN SubSeq(valid, 1, max_size)
        ELSE valid \o zeros(max_size - size)

\* matched_boxes_ta.write(i, value)
write(ta, i, value) == Append(ta, [index |-> i, value |-> value])

\* matched_boxes_ta.stack()
stack(ta) ==
    LET size == Cardinality({ta[w].index : w \in 1..Len(ta)})
    IN  [k \in 1..size |->
            LET w == CHOOSE x \in 1..Len(ta) :
                        /\ ta[x].index = k - 1
                        /\ \A y \in (x+1)..Len(ta) : ta[y].index # k - 1
            IN  ta[w].value]

RECURSIVE for_i(_, _, _, _)
\* lines 74-82: the loop over  tf.range(tf.shape(target_boxes)[0]),  from index i on
for_i(i, ta, target_boxes, mask) ==
    IF i >= Len(target_boxes) THEN ta
    ELSE for_i(i + 1,
               write(ta, i, matched_boxes(valid_boxes(target_boxes[i + 1], mask[i + 1]))),
               target_boxes, mask)

\* ta: the TensorArray when the loop ends; value: the tensor returned
_get_matched_gt_boxes(target_boxes, mask) ==
    LET ta == for_i(0, <<>>, target_boxes, mask)
    IN  [ta |-> ta, value |-> stack(ta)]

(***************************************************************************)
(* The target boxes and labels of one image are drawn from a family: a     *)
(* number of boxes and a pattern of labels.  Box j is <<j, j, j+1, j+1>>,  *)
(* so that a box tells its row.                                            *)
(***************************************************************************)
target_box(j) == <<j, j, j + 1, j + 1>>

\* labels: "pos" 1,1,1,...  "neg" 0,0,0,...  "cyc" 0,1,2,-1,0,1,2,-1,...
target_label(pat, j) ==
    CASE pat = "pos" -> 1
      [] pat = "neg" -> 0
      [] pat = "cyc" -> (j % 4) - 1

Image(len, pat) == [len |-> len, pat |-> pat]

Images ==
    { Image(0, "pos"), Image(2, "neg"), Image(3, "cyc"), Image(799, "pos"),
      Image(1600, "cyc"), Image(1602, "cyc") }

Batches == UNION { [1..b -> Images] : b \in 0..MaxBatch }

TargetBoxes(batch) ==
    [i \in 1..Len(batch) |-> [j \in 1..batch[i].len |-> target_box(j)]]

TargetLabels(batch) ==
    [i \in 1..Len(batch) |-> [j \in 1..batch[i].len |-> target_label(batch[i].pat, j)]]

\* target_labels >= 1
greater_equal_1(labels) ==
    [i \in 1..Len(labels) |-> [j \in 1..Len(labels[i]) |-> labels[i][j] >= 1]]

GetMatchedGtBoxes ==
    /\ pc = "ready"
    /\ \E batch \in Batches :
         LET r == _get_matched_gt_boxes(TargetBoxes(batch), greater_equal_1(TargetLabels(batch)))
         IN  ret' = [op |-> "_get_matched_gt_boxes", status |-> "ok", batch |-> batch,
                     ta |-> r.ta, value |-> r.value]
    /\ pc' = "returned"
    /\ UNCHANGED <<cfg, head, model, nms, calls>>

(***************************************************************************)
(* Detector.summary_boxes.                                                 *)
(***************************************************************************)
\* tf.cast(x, tf.float32): the numbers of the model are exact in float32
cast(x, dtype) == x

\* self.delta2box(total_anchors, predicted_boxes), defined by the subclass
delta2box(total_anchors, predicted_boxes) ==
    [fn |-> "delta2box", anchors |-> total_anchors, deltas |-> predicted_boxes]

\* 1. / input_size
recip(input_size) == [num |-> 1, den |-> input_size]

\* x * y  of tensors
mul(x, y) == [fn |-> "mul", x |-> x, y |-> y]

\* lines 94 and 97, with the scaling applied to the deltas and not to the decoded boxes
normalized_boxes_scaled_first(total_anchors, predicted_boxes, input_size) ==
    delta2box(total_anchors, mul(predicted_boxes, recip(input_size)))

\* lines 94 and 97: the decoded boxes, then  predicted_boxes *= (1. / input_size)
normalized_boxes(total_anchors, predicted_boxes, input_size) ==
    mul(delta2box(total_anchors, predicted_boxes), recip(input_size))

\* tf.nn.sigmoid: one score per logit, from that logit alone
sigmoid(t) ==
    [i \in 1..Len(t) |-> [a \in 1..Len(t[i]) |-> [c \in 1..Len(t[i][a]) |->
        [fn |-> "sigmoid", arg |-> <<t[i][a][c]>>, ch |-> c]]]]

\* tf.nn.softmax(t, axis=-1): one score per logit, from all the logits of the anchor
softmax(t) ==
    [i \in 1..Len(t) |-> [a \in 1..Len(t[i]) |-> [c \in 1..Len(t[i][a]) |->
        [fn |-> "softmax", arg |-> t[i][a], ch |-> c]]]]

\* t[:, :, 1:]
from_channel_1(t) ==
    [i \in 1..Len(t) |-> [a \in 1..Len(t[i]) |-> SubSeq(t[i][a], 2, Len(t[i][a]))]]

\* lines 100-104 without the slice
predicted_scores_all_channels(use_sigmoid, predicted_labels) ==
    IF use_sigmoid
    THEN sigmoid(predicted_labels)
    ELSE softmax(predicted_labels)

\* lines 100-104
predicted_scores(use_sigmoid, predicted_labels) ==
    IF use_sigmoid
    THEN sigmoid(predicted_labels)
    ELSE from_channel_1(softmax(predicted_labels))

\* self.nms(boxes, scores): the four outputs of the layer
nms_call(self_nms, boxes, scores) ==
    [k \in 1..4 |-> [fn |-> "nms", out |-> k, layer |-> self_nms, boxes |-> boxes, scores |-> scores]]

summary_boxes(self_cfg, self_nms, outputs, image_info) ==
    LET predicted_boxes == cast(outputs.predicted_boxes, "float32")
        predicted_labels == cast(outputs.predicted_labels, "float32")
        target_boxes == image_info.target_boxes
        target_labels == image_info.target_labels
        total_anchors == image_info.total_anchors
        input_size == image_info.input_size
        boxes == normalized_boxes(total_anchors, predicted_boxes, input_size)
        matched_gt_boxes ==
            mul(_get_matched_gt_boxes(target_boxes, greater_equal_1(target_labels)).value,
                recip(input_size))
        scores == predicted_scores(self_cfg.use_sigmoid, predicted_labels)
        nmsed == nms_call(self_nms, boxes, scores)
    IN  [trace |-> <<"delta2box", "_get_matched_gt_boxes",
                     IF self_cfg.use_sigmoid THEN "sigmoid" ELSE "softmax", "nms">>,
         value |-> [matched_gt_boxes |-> matched_gt_boxes, nmsed_boxes |-> nmsed[1],
                    nmsed_scores |-> nmsed[2], nmsed_classes |-> nmsed[3]]]

\* the predictions of the head for a batch of b images: 2 anchors, ch logit channels
PredictedBoxes(b) == [i \in 1..b |-> [a \in 1..2 |-> <<i, a, -1, 2>>]]

PredictedLabels(b, ch) == [i \in 1..b |-> [a \in 1..2 |-> [c \in 1..ch |-> 3 * a + c - i]]]

TotalAnchors == [a \in 1..2 |-> <<8 * a, 8 * a, 8 * a + 8, 8 * a + 8>>]

InputSizes == {512, 640}

SummaryBoxes ==
    /\ pc = "ready"
    /\ \E batch \in Batches, ch \in 1..MaxChannels, sz \in InputSizes :
         LET outputs == [predicted_boxes |-> PredictedBoxes(Len(batch)),
                         predicted_labels |-> PredictedLabels(Len(batch), ch)]
             image_info == [target_boxes |-> TargetBoxes(batch),
                            target_labels |-> TargetLabels(batch),
                            total_anchors |-> TotalAnchors,
                            input_size |-> sz]
             r == summary_boxes(cfg, nms, outputs, image_info)
         IN  ret' = [op |-> "summary_boxes", status |-> "ok", batch |-> batch,
                     outputs |-> outputs, total_anchors |-> TotalAnchors, input_size |-> sz,
                     trace |-> r.trace, value |-> r.value]
    /\ pc' = "returned"
    /\ UNCHANGED <<cfg, head, model, nms, calls>>

BoxConfigs ==
    { c \in Configs :
        /\ c.pretrained_weights_path = Str(<<"w", ".", "h", "5">>)
        /\ c.train.pretrained_weights_path = Str(<<"w", ".", "h", "5">>)
        /\ ~c.neck.none
        /\ c.num_classes = 80
        /\ c.head.num_classes = 80
        /\ c.weight_decay = 0 }

InitBoxes == \E c \in BoxConfigs, h \in Heads : Constructed(c, h, <<>>)

NextBoxes == GetMatchedGtBoxes \/ SummaryBoxes \/ Return

SpecBoxes == InitBoxes /\ [][NextBoxes]_vars

(***************************************************************************)
(* Properties.                                                             *)
(***************************************************************************)
Fns(cs) == [i \in 1..Len(cs) |-> cs[i].fn]

StageCalls == SelectSeq(calls, LAMBDA c : c.fn \in {"build_backbone", "build_neck", "build_head"})

\* the position of the first call of fn in calls (0: none)
Pos(fn) ==
    IF \E i \in 1..Len(calls) : calls[i].fn = fn
    THEN CHOOSE i \in 1..Len(calls) : calls[i].fn = fn /\ \A j \in 1..(i-1) : calls[j].fn # fn
    ELSE 0

\* C1: once build_model has run, the stage builders were called in the order backbone, neck
\* (if and only if cfg.neck is not None), head, each once: the backbone on the model input,
\* the neck on the backbone's output, the head last, on the neck's output when there is a
\* neck and on the backbone's output otherwise; the model maps the input to the head's output.
C1_BuildOrder ==
    pc # "new" =>
        LET st == StageCalls
            bbOut == Out(<<"inputs">>, "build_backbone")
        IN  /\ model.built
            /\ model.inputs = <<"inputs">>
            /\ st[1].fn = "build_backbone"
            /\ st[1].tensor = model.inputs
            /\ Pos("build_head") = Pos("model.summary") - 1
            /\ IF cfg.neck.none
               THEN /\ Fns(st) = <<"build_backbone", "build_head">>
                    /\ st[2].tensor = bbOut
                    /\ model.outputs = Out(bbOut, "build_head")
               ELSE /\ Fns(st) = <<"build_backbone", "build_neck", "build_head">>
                    /\ st[2].tensor = bbOut
                    /\ st[3].tensor = Out(bbOut, "build_neck")
                    /\ model.outputs = Out(Out(bbOut, "build_neck"), "build_head")

C1_Witness ==
    /\ pc = "ready"
    /\ ~cfg.neck.none
    /\ Pos("build_neck") > 0
    /\ model.built

\* C8 (as claimed): for every value of cfg.pretrained_weights_path, None included, the
\* constructor runs build_model, model.summary, the weight restoration and the construction
\* of the NMS layer in this order, the restoration being exactly one call: load_weights if
\* ".h5" occurs in the path and init_weights otherwise; it ends with self.nms set.
C8_ConstructorCompletes ==
    pc # "new" =>
        LET steps == SelectSeq(calls, LAMBDA c : c.fn \in
                        {"build_head", "model.summary", "model.load_weights", "init_weights",
                         "CombinedNonMaxSuppression"})
            p == cfg.pretrained_weights_path
        IN  /\ Len(steps) = 4
            /\ steps[1].fn = "build_head"
            /\ steps[2].fn = "model.summary"
            /\ steps[3].fn = IF (~p.none) /\ Contains(dot_h5, p.str)
                             THEN "model.load_weights" ELSE "init_weights"
            /\ steps[3].path = p
            /\ steps[4].fn = "CombinedNonMaxSuppression"
            /\ nms.built
            /\ pc # "raised"

\* C9 (as claimed): in a constructed detector the number of classes of the NMS layer is the
\* value of the num_classes property, and the path given to the backbone builder is the
\* path the constructor restores the weights from.
C9_ConfigValuesAgree ==
    pc = "ready" =>
        LET restore == SelectSeq(calls, LAMBDA c : c.fn \in {"model.load_weights", "init_weights"})
        IN  /\ nms.num_classes = num_classes(cfg)
            /\ calls[Pos("build_backbone")].path = restore[1].path

RECURSIVE SumOver(_, _)
SumOver(S, f) ==
    IF S = {} THEN 0
    ELSE LET x == CHOOSE y \in S : TRUE IN f[x] + SumOver(S \ {x}, f)

\* the sum of the values of a dictionary
SumDict(d) == SumOver(DOMAIN d, d)

\* C2 (as claimed): the total result["loss"] is the sum of every term the head returned plus
\* the l2_loss term, whatever keys the head returned.
C2_TotalIsSumOfAllTerms ==
    (ret.op = "losses" /\ ret.status = "ok") =>
        ret.value["loss"] = SumDict(ret.head_result) + ret.value["l2_loss"]

C10_LossesFrame ==
    [][(ret'.op = "losses" /\ ret'.status = "ok") =>
          /\ \A k \in DOMAIN ret'.head_result : ret'.value[k] = ret'.head_result[k]
          /\ DOMAIN ret'.value = DOMAIN ret'.head_result \cup {"l2_loss", "loss"}
          /\ Cardinality(DOMAIN ret'.value) = Cardinality(DOMAIN ret'.head_result) + 2
          /\ model' = model /\ cfg' = cfg /\ head' = head /\ nms' = nms]_vars

\* the number of boxes of an image that the mask  target_labels >= 1  selects
NumSelected(img) == Cardinality({j \in 1..img.len : target_label(img.pat, j) >= 1})

\* C4: _get_matched_gt_boxes returns, for every image of the batch and every number of
\* selected boxes, exactly 800 rows of 4 coordinates: the result has shape [batch, 800, 4],
\* and one entry is written per batch index, in the order 0..batch-1.
C4_Shape ==
    ret.op = "_get_matched_gt_boxes" =>
        /\ Len(ret.value) = Len(ret.batch)
        /\ \A i \in 1..Len(ret.value) :
              /\ Len(ret.value[i]) = 800
              /\ \A k \in 1..Len(ret.value[i]) : Len(ret.value[i][k]) = 4
        /\ Len(ret.ta) = Len(ret.batch)
        /\ \A w \in 1..Len(ret.ta) : ret.ta[w].index = w - 1

C4_Witness ==
    /\ ret.op = "_get_matched_gt_boxes"
    /\ \E i \in 1..Len(ret.batch) : NumSelected(ret.batch[i]) \in 1..799
    /\ \E i \in 1..Len(ret.batch) : NumSelected(ret.batch[i]) > 800

\* the rows out of image img: the first min(n, 800) are the selected boxes of the image in
\* their order, none skipped, and the other rows are the zero box
RowsAreSelected(img, out) ==
    LET n == NumSelected(img)
        m == IF n < 800 THEN n ELSE 800
    IN  /\ Len(out) >= m
        /\ \A k \in 1..m :
              /\ out[k][1] \in 1..img.len
              /\ target_label(img.pat, out[k][1]) >= 1
              /\ out[k] = target_box(out[k][1])
        /\ \A k \in 1..(m - 1) : out[k][1] < out[k + 1][1]
        /\ m > 0 => Cardinality({j \in 1..out[m][1] : target_label(img.pat, j) >= 1}) = m
        /\ \A k \in (m + 1)..Len(out) : out[k] = <<0, 0, 0, 0>>

\* C5: for each image the first min(n, 800) rows of _get_matched_gt_boxes are the boxes whose
\* mask entry is true, in their order, the remaining rows are the zero box, unselected boxes
\* never appear and selected boxes after the first 800 are dropped; in summary_boxes the mask
\* is  target_labels >= 1.
C5_Rows ==
    /\ ret.op = "_get_matched_gt_boxes" =>
          \A i \in 1..Len(ret.batch) : RowsAreSelected(ret.batch[i], ret.value[i])
    /\ ret.op = "summary_boxes" =>
          /\ ret.value.matched_gt_boxes.fn = "mul"
          /\ ret.value.matched_gt_boxes.y = recip(ret.input_size)
          /\ Len(ret.value.matched_gt_boxes.x) = Len(ret.batch)
          /\ \A i \in 1..Len(ret.batch) :
                RowsAreSelected(ret.batch[i], ret.value.matched_gt_boxes.x[i])

C5_Witness ==
    /\ ret.op = "summary_boxes"
    /\ \E i \in 1..Len(ret.batch) :
          /\ ret.batch[i].pat = "cyc"
          /\ NumSelected(ret.batch[i]) > 800
    /\ \E i \in 1..Len(ret.batch) :
          /\ ret.batch[i].pat = "cyc"
          /\ NumSelected(ret.batch[i]) \in 1..799

\* C3: summary_boxes decodes the predicted deltas against total_anchors by delta2box, scales
\* the decoded boxes by 1/input_size, turns the logits into scores and only then applies NMS,
\* once, to these boxes and scores; it returns the first three outputs of NMS and not the
\* fourth.
C3_PostprocessOrder ==
    ret.op = "summary_boxes" =>
        LET v == ret.value
            boxes == mul(delta2box(ret.total_anchors, ret.outputs.predicted_boxes),
                         recip(ret.input_size))
            outs == <<v.nmsed_boxes, v.nmsed_scores, v.nmsed_classes>>
            n == Len(ret.trace)
        IN  /\ \A k \in 1..3 :
                 /\ outs[k].fn = "nms"
                 /\ outs[k].out = k
                 /\ outs[k].layer = nms
                 /\ outs[k].boxes = boxes
                 /\ outs[k].scores = outs[1].scores
            /\ \A i \in 1..Len(outs[1].scores) : \A a \in 1..Len(outs[1].scores[i]) :
                 \A c \in 1..Len(outs[1].scores[i][a]) :
                    outs[1].scores[i][a][c].fn \in {"sigmoid", "softmax"}
            /\ DOMAIN v = {"matched_gt_boxes", "nmsed_boxes", "nmsed_scores", "nmsed_classes"}
            /\ ret.trace[n] = "nms"
            /\ Cardinality({i \in 1..n : ret.trace[i] = "nms"}) = 1
            /\ \E i, j \in 1..(n - 1) :
                 i < j /\ ret.trace[i] = "delta2box" /\ ret.trace[j] \in {"sigmoid", "softmax"}

C3_Witness ==
    /\ ret.op = "summary_boxes"
    /\ Len(ret.batch) > 0
    /\ ret.value.nmsed_boxes.boxes.fn = "mul"
    /\ ret.value.nmsed_boxes.boxes.x.fn = "delta2box"

\* C7: the scores given to NMS have one channel per logit channel when cfg.use_sigmoid is
\* true (the sigmoid of each logit), and otherwise are the softmax over all the channels
\* without channel 0: score channel k is logit channel k+1 and there is one channel less.
C7_ScoreChannels ==
    ret.op = "summary_boxes" =>
        LET scores == ret.value.nmsed_scores.scores
            logits == ret.outputs.predicted_labels
        IN  /\ Len(scores) = Len(logits)
            /\ \A i \in 1..Len(logits) :
                 /\ Len(scores[i]) = Len(logits[i])
                 /\ \A a \in 1..Len(logits[i]) :
                      LET row == logits[i][a]
                          sc == scores[i][a]
                      IN  IF cfg.use_sigmoid
                          THEN /\ Len(sc) = Len(row)
                               /\ \A c \in 1..Len(row) :
                                    sc[c] = [fn |-> "sigmoid", arg |-> <<row[c]>>, ch |-> c]
                          ELSE /\ Len(sc) = Len(row) - 1
                               /\ \A k \in 1..(Len(row) - 1) :
                                    sc[k] = [fn |-> "softmax", arg |-> row, ch |-> k + 1]

C7_Witness ==
    /\ ret.op = "summary_boxes"
    /\ ~cfg.use_sigmoid
    /\ Len(ret.batch) > 0
    /\ Len(ret.outputs.predicted_labels[1][1]) >= 2
    /\ Len(ret.value.nmsed_scores.scores[1][1]) = Len(ret.outputs.predicted_labels[1][1]) - 1

====
